---------------------------- MODULE Spec2Model ----------------------------
(***************************************************************************)
(* Model of app.py, the Streamlit intraday movement scanner (NSE/BSE).     *)
(*                                                                         *)
(* Numbers.  Prices are integers.  A pandas missing value is NaN.  A       *)
(* movement percentage is kept in hundredths of a percent (6.00 % is 600), *)
(* which is what round(pct, 2) leaves; the band test is done on the exact  *)
(* quotient (High - Low) / Low * 100, by cross-multiplication.             *)
(*                                                                         *)
(* A price table is [rows |-> n, bar |-> [ticker |-> <<bar_1 .. bar_n>>]]: *)
(* one column per ticker, one row per timestamp, as the 'Open', 'High',    *)
(* 'Low' and 'Close' frames of yf.download share their index and columns.  *)
(***************************************************************************)
EXTENDS Integers, Sequences, FiniteSets, TLC

VARIABLES
    pc,             \* position of the script run / of the call
    session_state,  \* st.session_state: a function from its keys
    min_pct,        \* sidebar slider "Min Movement %"
    max_pct,        \* sidebar slider "Max Movement %"
    sector_filter,  \* sidebar selectbox, "All" already mapped to None
    auto_refresh,   \* sidebar checkbox
    clicked,        \* st.button("Scan Now ...") of this run
    run,            \* number of script runs started in the session
    market,         \* the provider's price table for the selected date
    i,              \* loop variable of the batch loop (0-based, as range())
    results,        \* list of non-empty batch frames
    final_df,       \* the sorted final table
    calls,          \* log of the yf.download scan requests of this run
    fetches,        \* log of the symbol fetches of the session
    symbols,        \* argument of a direct get_stocks_with_movement call
    df,             \* frame returned by that call
    utc_now,        \* the clock read by datetime.now(tz)
    selected_date   \* the scan date the call settles on

vars == <<pc, session_state, min_pct, max_pct, sector_filter, auto_refresh,
          clicked, run, market, i, results, final_df, calls, fetches,
          symbols, df, utc_now, selected_date>>

---------------------------------------------------------------------------
\* Bounds of the model.

\* Most rows (timestamps) a price table has: 1 is daily data, more is intraday.
MaxBars == 2

\* Most script runs of one session.
MaxRuns == 3

---------------------------------------------------------------------------
\* Values.

\* pandas' missing value (numpy.nan); prices are never negative.
NaN == -1

\* Python's None (falsy).
None == "None"

Truthy(x) == x # None /\ x # ""

\* Raw listing names of the two exchanges.
NseNames == {"FOO", "BAR"}

BseNames == {"BAZ"}

\* f"{x}.NS" and f"{x}.BO"
NsSuffix(x) == x \o ".NS"

BoSuffix(x) == x \o ".BO"

Tickers == {NsSuffix(x) : x \in NseNames} \cup {BoSuffix(x) : x \in BseNames}

\* Rows of the provider's table.  The first three are the specification's
\* examples FOO, BAR and BAZ; then a session without trades, and a bar whose
\* movement (6.666... %) does not end at two decimals.
FooBar == [Open |-> 100, High |-> 106, Low |-> 100, Close |-> 104]

BarBar == [Open |-> 100, High |-> 130, Low |-> 100, Close |-> 120]

BazBar == [Open |-> 5, High |-> 5, Low |-> 0, Close |-> 5]

NaNBar == [Open |-> NaN, High |-> NaN, Low |-> NaN, Close |-> NaN]

ThirdBar == [Open |-> 300, High |-> 320, Low |-> 300, Close |-> 310]

Bars == {FooBar, BarBar, BazBar, NaNBar, ThirdBar}

\* Sequences of length n over S.
SeqN(S, n) == [1..n -> S]

\* Every table of n rows over the tickers T.
Tables(T, n) == {[rows |-> n, bar |-> b] : b \in [T -> SeqN(Bars, n)]}

\* Slider values tried (the sliders run 1..10 and 10..50, defaults 3 and 20).
MinPcts == {3, 7}

MaxPcts == {20, 40}

\* line 98: the options of the selectbox.
SectorOptions == {"All", "IT", "Finance", "Energy", "Healthcare"}

\* lines 101-102: "All" stands for no filter.
SectorFilterOf(w) == IF w = "All" THEN None ELSE w

---------------------------------------------------------------------------
\* get_stocks_with_movement, lines 37-84.

\* line 46: the granularity tests the presence of the key, not its value.
Interval(ss) == IF "live" \in DOMAIN ss THEN "1m" ELSE "1d"

\* What yf.download can answer for the batch syms: an exception, an empty
\* frame, or the table restricted to the batch, with two-level columns
\* (field, ticker) or, for a single ticker, possibly one-level columns.
ResponseKinds(syms) ==
    {"raise", "empty", "multi"} \cup (IF Len(syms) = 1 THEN {"flat"} ELSE {})

\* A cell of (highs - lows) / lows * 100 is NaN when High or Low is missing
\* and for 0 / 0; x / 0 with x > 0 is inf, which is a value and not NaN.
MovementIsNaN(b) ==
    \/ b.High = NaN
    \/ b.Low = NaN
    \/ (b.Low = 0 /\ b.High = 0)

\* line 62: (movements >= min_pct) & (movements <= max_pct); inf and NaN
\* fail the second and both comparisons.
InBand(b, lo, hi) ==
    /\ ~MovementIsNaN(b)
    /\ b.Low # 0
    /\ (b.High - b.Low) * 100 >= lo * b.Low
    /\ (b.High - b.Low) * 100 <= hi * b.Low

\* round(pct, 2) of a cell in the band, in hundredths, ties to even.
Round2(b) ==
    LET n == (b.High - b.Low) * 10000
        q == n \div b.Low
        r == n % b.Low
    IN  IF 2 * r > b.Low THEN q + 1
        ELSE IF 2 * r < b.Low THEN q
        ELSE IF q % 2 = 0 THEN q ELSE q + 1

SetMax(S) == CHOOSE x \in S : \A y \in S : y <= x

\* line 61: the rows of movements that dropna(how='all') keeps.
MovementRows(syms, t) ==
    {r \in 1..t.rows : \E k \in 1..Len(syms) : ~MovementIsNaN(t.bar[syms[k]][r])}

\* line 62: the mask turns every cell outside the band into NaN and keeps the
\* frame's shape; dropna(how='all') then drops the rows with no cell left.
\* Every column stays.
FilteredRows(syms, t, lo, hi) ==
    {r \in MovementRows(syms, t) :
        \E k \in 1..Len(syms) : InBand(t.bar[syms[k]][r], lo, hi)}

\* line 66: filtered[symbol].iloc[-1], the cell of the last row kept, which
\* is NaN for a column the mask emptied there.
LatestPct(s, syms, t, lo, hi) ==
    LET b == t.bar[s][SetMax(FilteredRows(syms, t, lo, hi))]
    IN  IF InBand(b, lo, hi) THEN Round2(b) ELSE NaN

\* lines 69-80: the record of one column; round(nan, 2) is nan.
MovementRecord(s, syms, t, lo, hi) ==
    [Symbol   |-> s,
     Movement |-> LatestPct(s, syms, t, lo, hi),
     Open     |-> t.bar[s][1].Open,
     High     |-> t.bar[s][t.rows].High,
     Low      |-> t.bar[s][t.rows].Low,
     Close    |-> t.bar[s][t.rows].Close,
     Sector   |-> "Unknown"]

\* line 70: if sector_filter and sector != sector_filter: continue
SectorPasses(rec, filter) == ~(Truthy(filter) /\ rec.Sector # filter)

\* lines 64-81 on two-level columns: filtered[symbol].empty holds for every
\* column when no row is left, and for none otherwise; pct is then never None.
RecordsOf(syms, t, lo, hi, filter) ==
    IF FilteredRows(syms, t, lo, hi) = {}
    THEN <<>>
    ELSE SelectSeq([k \in 1..Len(syms) |-> MovementRecord(syms[k], syms, t, lo, hi)],
                   LAMBDA rec : SectorPasses(rec, filter))

\* The table restricted to the batch.
Restrict(t, syms) ==
    [rows |-> t.rows, bar |-> [s \in {syms[k] : k \in 1..Len(syms)} |-> t.bar[s]]]

\* lines 45-84.  The frame returned and whether st.error was shown.  With
\* one-level columns (lines 56-59) highs has the column 'High' and lows the
\* column 'Low': highs - lows aligns them to two all-NaN columns, no row
\* survives line 61 and the result is empty.
get_stocks_with_movement(syms, lo, hi, filter, kind, t) ==
    CASE kind = "raise" -> [df |-> <<>>, error |-> TRUE]
      [] kind = "empty" -> [df |-> <<>>, error |-> FALSE]
      [] kind = "flat"  -> [df |-> <<>>, error |-> FALSE]
      [] OTHER          -> [df |-> RecordsOf(syms, Restrict(t, syms), lo, hi, filter),
                            error |-> FALSE]

---------------------------------------------------------------------------
\* A direct call of get_stocks_with_movement on one batch and one table.

\* The tickers of the direct call's batches.
ScanTickers == {NsSuffix("FOO"), NsSuffix("BAR")}

\* The lists without repetition over S.
ListsOver(S) ==
    UNION {{l \in SeqN(S, n) : \A a, b \in 1..n : a # b => l[a] # l[b]} :
             n \in 0..Cardinality(S)}

IdleRest ==
    /\ auto_refresh = FALSE
    /\ clicked = FALSE
    /\ run = 0
    /\ i = 0
    /\ results = <<>>
    /\ final_df = <<>>
    /\ calls = <<>>
    /\ fetches = <<>>
    /\ utc_now = [day |-> 0, hour |-> 0, minute |-> 0]
    /\ selected_date = None

InitScan ==
    /\ pc = "call"
    /\ symbols \in ListsOver(ScanTickers) \ {<<>>}
    /\ \E n \in 1..MaxBars : market \in Tables(ScanTickers, n)
    /\ min_pct \in MinPcts
    /\ max_pct \in MaxPcts
    /\ sector_filter \in {SectorFilterOf(w) : w \in SectorOptions}
    /\ session_state \in {<<>>, [live |-> FALSE]}
    /\ df = <<>>
    /\ IdleRest

CallScan ==
    /\ pc = "call"
    /\ \E kind \in ResponseKinds(symbols) :
         LET ret == get_stocks_with_movement(symbols, min_pct, max_pct,
                                             sector_filter, kind, market)
         IN  /\ df' = ret.df
             /\ calls' = <<[batch |-> symbols, interval |-> Interval(session_state),
                            kind |-> kind, df |-> ret.df]>>
    /\ pc' = "returned"
    /\ UNCHANGED <<session_state, min_pct, max_pct, sector_filter, auto_refresh,
                   clicked, run, market, i, results, final_df, fetches,
                   symbols, utc_now, selected_date>>

NextScan == CallScan

SpecScan == InitScan /\ [][NextScan]_vars

---------------------------------------------------------------------------
\* The script, lines 93-159: one run per user interaction or rerun.

\* line 119 (500 in the source, scaled to the three tickers of the model).
batch_size == 2

\* pd.concat(results, ignore_index=True)
RECURSIVE Concat(_)
Concat(frames) ==
    IF frames = <<>> THEN <<>> ELSE Head(frames) \o Concat(Tail(frames))

\* Order of sort_values('Movement (%)', ascending=False): descending, the
\* NaN rows last (na_position='last').
SortedDesc(t) ==
    \A k \in 1..(Len(t) - 1) :
        \/ t[k + 1].Movement = NaN
        \/ (t[k].Movement # NaN /\ t[k].Movement >= t[k + 1].Movement)

\* The tables sort_values can give: the default quicksort is not stable, so
\* rows of equal movement may come in any order.
sort_values(t) ==
    {p \in {[k \in 1..Len(t) |-> t[f[k]]] : f \in Permutations(1..Len(t))} :
        SortedDesc(p)}

\* line 122: all_symbols[i:i+batch_size], i counted from 0.
Batch(all, idx) ==
    SubSeq(all, idx + 1, IF idx + batch_size < Len(all) THEN idx + batch_size ELSE Len(all))

\* lines 124-125: if not df_batch.empty: results.append(df_batch)
Accumulate(res, df_batch) ==
    IF df_batch # <<>> THEN Append(res, df_batch) ELSE res

\* Variant: the exception of a failed batch leaves the loop.
NextIndexLeavingOnError(idx, ret) ==
    IF ret.error THEN idx + 3 * batch_size ELSE idx + batch_size

\* line 121: the next value of range(0, len(all_symbols), batch_size); the
\* except clause of line 82 has returned, so a failed batch steps like any other.
NextIndex(idx, ret) == idx + batch_size

\* line 13-20: status 200 gives the listing with ".NS" appended, else [].
get_nse_symbols(status, listing) ==
    IF status = 200 THEN [k \in 1..Len(listing) |-> NsSuffix(listing[k])] ELSE <<>>

\* line 23-34: status 200 and a 'Table' key give the scrip ids with ".BO".
get_bse_symbols(status, has_table, listing) ==
    IF status = 200 /\ has_table
    THEN [k \in 1..Len(listing) |-> BoSuffix(listing[k])]
    ELSE <<>>

\* HTTP statuses tried.
Statuses == {200, 503}

\* What the exchanges list.
NseListing == <<"FOO", "BAR", "FOO">>

BseListing == <<"BAZ">>

Range(l) == {l[k] : k \in 1..Len(l)}

\* line 113: list(set(nse_symbols + bse_symbols)); a set's order is arbitrary.
ListOfSet(l) == {o \in ListsOver(Range(l)) : Len(o) = Cardinality(Range(l))}

\* Variant: the guard tests the cached list's truth value.
SymbolsCachedTruthy(ss) == "all_symbols" \in DOMAIN ss /\ ss.all_symbols # <<>>

\* line 109: the guard of the fetch tests the presence of the key.
SymbolsCached(ss) == "all_symbols" \in DOMAIN ss

\* lines 94-106: the widgets are read and the live flag gets its default.
StartRun ==
    /\ pc = "idle"
    /\ run < MaxRuns
    /\ run' = run + 1
    /\ min_pct' \in MinPcts
    /\ max_pct' \in MaxPcts
    /\ \E w \in SectorOptions : sector_filter' = SectorFilterOf(w)
    /\ auto_refresh' \in BOOLEAN
    /\ clicked' \in BOOLEAN
    /\ session_state' = IF "live" \notin DOMAIN session_state
                        THEN session_state @@ ("live" :> FALSE)
                        ELSE session_state
    /\ i' = 0
    /\ results' = <<>>
    /\ final_df' = <<>>
    /\ calls' = <<>>
    /\ pc' = "symbols"
    /\ UNCHANGED <<market, fetches, symbols, df, utc_now, selected_date>>

\* lines 108-114.  requests.get / requests.post may raise (no handler): the
\* script run ends there and the key is not set.
FetchSymbols ==
    /\ pc = "symbols"
    /\ IF SymbolsCached(session_state)
       THEN /\ pc' = IF clicked THEN "scan" ELSE "refresh"
            /\ UNCHANGED <<session_state, fetches>>
       ELSE \E raised \in BOOLEAN, ns \in Statuses, bs \in Statuses, tbl \in BOOLEAN :
              /\ fetches' = Append(fetches, [run |-> run, raised |-> raised])
              /\ IF raised
                 THEN /\ pc' = "idle"
                      /\ UNCHANGED session_state
                 ELSE /\ \E l \in ListOfSet(get_nse_symbols(ns, NseListing)
                                            \o get_bse_symbols(bs, tbl, BseListing)) :
                            session_state' = session_state @@ ("all_symbols" :> l)
                      /\ pc' = IF clicked THEN "scan" ELSE "refresh"
    /\ UNCHANGED <<min_pct, max_pct, sector_filter, auto_refresh, clicked, run,
                   market, i, results, final_df, calls, symbols, df, utc_now,
                   selected_date>>

\* lines 121-125: one turn of the batch loop.
ScanBatch ==
    /\ pc = "scan"
    /\ i < Len(session_state.all_symbols)
    /\ LET batch == Batch(session_state.all_symbols, i)
       IN  \E kind \in ResponseKinds(batch) :
             LET ret == get_stocks_with_movement(batch, min_pct, max_pct,
                                                 sector_filter, kind, market)
             IN  /\ results' = Accumulate(results, ret.df)
                 /\ calls' = Append(calls, [batch |-> batch,
                                            interval |-> Interval(session_state),
                                            kind |-> kind, df |-> ret.df])
                 /\ i' = NextIndex(i, ret)
    /\ UNCHANGED <<pc, session_state, min_pct, max_pct, sector_filter,
                   auto_refresh, clicked, run, market, final_df, fetches,
                   symbols, df, utc_now, selected_date>>

\* lines 126-149: the final table, or st.info when no batch gave a row.  The
\* chart downloads of lines 134-143 have no handler: when one raises, the run
\* ends before the auto-refresh logic.
FinishScan ==
    /\ pc = "scan"
    /\ i >= Len(session_state.all_symbols)
    /\ IF results # <<>>
       THEN /\ final_df' \in sort_values(Concat(results))
            /\ \E chart_raises \in BOOLEAN :
                 pc' = IF chart_raises THEN "idle" ELSE "refresh"
       ELSE /\ final_df' = <<>>
            /\ pc' = "refresh"
    /\ UNCHANGED <<session_state, min_pct, max_pct, sector_filter, auto_refresh,
                   clicked, run, market, i, results, calls, fetches, symbols, df,
                   utc_now, selected_date>>

\* Times of day (IST) at which the auto-refresh logic is tried.
RefreshHours == {8, 9, 15, 16}

RefreshMinutes == {0, 30, 31}

\* line 154
MarketOpenForRefresh(h, m) == 9 <= h /\ h <= 15 /\ (h # 15 \/ m <= 30)

\* lines 151-159: during the market the live flag is set and, after the
\* sleep, the script is rerun.
AutoRefresh ==
    /\ pc = "refresh"
    /\ IF auto_refresh
       THEN \E h \in RefreshHours, m \in RefreshMinutes :
              session_state' = IF MarketOpenForRefresh(h, m)
                               THEN [session_state EXCEPT !["live"] = TRUE]
                               ELSE session_state
       ELSE UNCHANGED session_state
    /\ pc' = "idle"
    /\ UNCHANGED <<min_pct, max_pct, sector_filter, auto_refresh, clicked, run,
                   market, i, results, final_df, calls, fetches, symbols, df,
                   utc_now, selected_date>>

\* The specification's examples FOO, BAR and BAZ, one daily bar each.
ExampleMarket ==
    [rows |-> 1,
     bar  |-> [s \in Tickers |->
                 IF s = NsSuffix("FOO") THEN <<FooBar>>
                 ELSE IF s = NsSuffix("BAR") THEN <<BarBar>>
                 ELSE <<BazBar>>]]

\* A new session: st.session_state is empty.
Init ==
    /\ pc = "idle"
    /\ session_state = <<>>
    /\ min_pct = 3
    /\ max_pct = 20
    /\ sector_filter = None
    /\ market = ExampleMarket
    /\ symbols = <<>>
    /\ df = <<>>
    /\ IdleRest

Next ==
    \/ StartRun
    \/ FetchSymbols
    \/ ScanBatch
    \/ FinishScan
    \/ AutoRefresh

Spec == Init /\ [][Next]_vars

---------------------------------------------------------------------------
\* The Scan button's handler alone, over every cached list and daily table.

InitLoop ==
    /\ pc = "scan"
    /\ \E l \in ListsOver(Tickers) : session_state = [live |-> FALSE, all_symbols |-> l]
    /\ market \in Tables(Tickers, 1)
    /\ min_pct \in MinPcts
    /\ max_pct \in MaxPcts
    /\ sector_filter \in {SectorFilterOf(w) : w \in {"All", "IT"}}
    /\ symbols = <<>>
    /\ df = <<>>
    /\ auto_refresh = FALSE
    /\ clicked = TRUE
    /\ run = 1
    /\ i = 0
    /\ results = <<>>
    /\ final_df = <<>>
    /\ calls = <<>>
    /\ fetches = <<>>
    /\ utc_now = [day |-> 0, hour |-> 0, minute |-> 0]
    /\ selected_date = None

NextLoop ==
    \/ ScanBatch
    \/ FinishScan

SpecLoop == InitLoop /\ [][NextLoop]_vars

---------------------------------------------------------------------------
\* get_stocks_with_movement called without a date, lines 38-43.

\* Asia/Kolkata is UTC+05:30 the whole year.
IstOffsetMinutes == 330

\* datetime.now(pytz.timezone('Asia/Kolkata')): the clock's instant as IST
\* wall time; day is the date's ordinal (date.toordinal()).
ToIST(utc) ==
    LET total == utc.hour * 60 + utc.minute + IstOffsetMinutes
    IN  [day    |-> utc.day + total \div 1440,
         hour   |-> (total % 1440) \div 60,
         minute |-> total % 60]

\* Variant: the session's last minute counts as closed.
MarketClosedAtHalfPast(now) ==
    \/ now.hour < 9
    \/ (now.hour = 9 /\ now.minute < 15)
    \/ now.hour > 15
    \/ (now.hour = 15 /\ now.minute >= 30)

\* line 40: the market counts as closed
MarketClosed(now) ==
    \/ now.hour < 9
    \/ (now.hour = 9 /\ now.minute < 15)
    \/ now.hour > 15
    \/ (now.hour = 15 /\ now.minute > 30)

\* lines 39-43: the date of (now - timedelta(days=1)) or of now.
DefaultDate(utc) ==
    LET now == ToIST(utc)
    IN  IF MarketClosed(now) THEN now.day - 1 ELSE now.day

\* Ordinals of the days on which the clock is read.
ClockDays == {738000, 738001}

InitDate ==
    /\ pc = "nodate"
    /\ utc_now \in [day : ClockDays, hour : 0..23, minute : 0..59]
    /\ selected_date = None
    /\ session_state = <<>>
    /\ min_pct = 3
    /\ max_pct = 20
    /\ sector_filter = None
    /\ market = ExampleMarket
    /\ symbols = <<>>
    /\ df = <<>>
    /\ auto_refresh = FALSE
    /\ clicked = FALSE
    /\ run = 0
    /\ i = 0
    /\ results = <<>>
    /\ final_df = <<>>
    /\ calls = <<>>
    /\ fetches = <<>>

CallWithoutDate ==
    /\ pc = "nodate"
    /\ selected_date' = DefaultDate(utc_now)
    /\ pc' = "dated"
    /\ UNCHANGED <<session_state, min_pct, max_pct, sector_filter, auto_refresh,
                   clicked, run, market, i, results, final_df, calls, fetches,
                   symbols, df, utc_now>>

NextDate == CallWithoutDate

SpecDate == InitDate /\ [][NextDate]_vars

---------------------------------------------------------------------------
\* Properties.

\* IEEE comparison of two movement values: false when either is NaN.
Geq(a, b) == a # NaN /\ b # NaN /\ a >= b

Returned == pc = "returned"

LoopDone == pc \in {"refresh", "idle"}

\* A bar with a zero Low, or without High or Low.
NoData(b) == b.Low = 0 \/ b.Low = NaN \/ b.High = NaN

\* A ticker with no other bar in the provider's table.
NoDataTicker(s) == \A r \in 1..market.rows : NoData(market.bar[s][r])

\* The percentage (High - Low) / Low * 100 of two prices, to 2 decimals.
PctOf(h, l) == Round2([High |-> h, Low |-> l])

\* C1: every record returned by get_stocks_with_movement has a movement
\* percentage with min_pct <= movement <= max_pct; a ticker outside the band
\* gets no record, whatever the rest of the batch is.
C1_RecordsWithinBand ==
    Returned =>
        \A k \in DOMAIN df :
            /\ Geq(df[k].Movement, min_pct * 100)
            /\ Geq(max_pct * 100, df[k].Movement)

\* C2: a ticker whose Low is 0 or whose High or Low is absent never appears
\* in the output of get_stocks_with_movement.
C2_NoDataTickerExcluded ==
    Returned => \A k \in DOMAIN df : ~NoDataTicker(df[k].Symbol)

\* C3: scanning the cached list batch by batch, concatenating and sorting
\* gives the final table that one scan of the whole list gives (no request
\* failing, the provider answering each with the same table's columns).
C3_BatchInvariance ==
    (LoopDone /\ \A k \in DOMAIN calls : calls[k].kind = "multi") =>
        LET whole == get_stocks_with_movement(session_state.all_symbols, min_pct,
                                              max_pct, sector_filter, "multi", market).df
        IN  IF whole = <<>> THEN final_df = <<>> ELSE final_df \in sort_values(whole)

\* C4: a batch whose request raises returns an empty frame, the loop goes on
\* to every remaining batch, and the final table holds exactly the records
\* of the batches that did not fail.
C4_FailedBatchSkipped ==
    LoopDone =>
        /\ Concat([k \in DOMAIN calls |-> calls[k].batch]) = session_state.all_symbols
        /\ \A k \in DOMAIN calls : calls[k].kind = "raise" => calls[k].df = <<>>
        /\ Range(final_df) =
             UNION {Range(calls[k].df) : k \in {j \in DOMAIN calls : calls[j].kind # "raise"}}
        /\ Len(final_df) = Len(Concat([k \in DOMAIN calls |-> calls[k].df]))

\* C4 witness: the first batch failed and the second one's records are the
\* final table.
C4_Witness ==
    /\ LoopDone
    /\ Len(calls) = 2
    /\ calls[1].kind = "raise"
    /\ calls[2].df # <<>>
    /\ final_df = calls[2].df

\* C5: in every emitted record the movement percentage is
\* (High - Low) / Low * 100 of the record's own High and Low, rounded to 2
\* decimals, and Open is the first bar's.  (Stated for the records that
\* have a movement, a High and a non-zero Low.)
C5_MovementOfRecordPrices ==
    Returned =>
        \A k \in DOMAIN df :
            (df[k].Movement # NaN /\ ~NoData(df[k])) =>
                /\ df[k].Movement = PctOf(df[k].High, df[k].Low)
                /\ df[k].Open = market.bar[df[k].Symbol][1].Open

\* C6: every record carries the placeholder sector and the sector filter
\* changes nothing: the call returns what it returns without a filter.
C6_SectorFilterNoOp ==
    Returned =>
        /\ \A k \in DOMAIN df : df[k].Sector = "Unknown"
        /\ df = get_stocks_with_movement(symbols, min_pct, max_pct, None,
                                         calls[1].kind, market).df

\* C7: the final table is in descending order of movement percentage: each
\* row's movement is greater than or equal to the next row's.
C7_FinalTableDescending ==
    LoopDone =>
        \A k \in 1..(Len(final_df) - 1) :
            Geq(final_df[k].Movement, final_df[k + 1].Movement)

\* Minutes since midnight, IST, of the clock's instant, and its IST day.
IstMinuteOfDay == (utc_now.hour * 60 + utc_now.minute + IstOffsetMinutes) % 1440

IstDay == utc_now.day + (utc_now.hour * 60 + utc_now.minute + IstOffsetMinutes) \div 1440

\* C8: without a date the scan date is today's date in Asia/Kolkata when the
\* time there is within 09:15-15:30, both ends included, and the previous
\* day's date at every other time.
C8_DefaultScanDate ==
    pc = "dated" =>
        selected_date =
            IF 9 * 60 + 15 <= IstMinuteOfDay /\ IstMinuteOfDay <= 15 * 60 + 30
            THEN IstDay
            ELSE IstDay - 1

\* C8 witness: the call at 15:30 IST, the session's last minute, took today;
\* the clock's UTC day is the IST day here.
C8_Witness ==
    /\ pc = "dated"
    /\ IstMinuteOfDay = 15 * 60 + 30
    /\ selected_date = utc_now.day

\* C9: a scan requests minute bars when the session's live flag is on and
\* daily bars when it is off.
C9_GranularityFollowsLive ==
    pc = "scan" =>
        \A k \in DOMAIN calls :
            calls[k].interval = IF session_state.live THEN "1m" ELSE "1d"

Cached == "all_symbols" \in DOMAIN session_state

\* The batches requested so far in this run, in order.
Scanned == Concat([k \in DOMAIN calls |-> calls[k].batch])

\* C10 as stated: the symbol lists are fetched in the first run only, and
\* every finished scan batched exactly the cached list.
C10_FetchedInFirstRunOnly ==
    /\ \A k \in DOMAIN fetches : fetches[k].run = 1
    /\ (Cached /\ clicked /\ LoopDone) => Scanned = session_state.all_symbols

\* State part of C10 as amended: the fetches are those of the runs up to the
\* first one whose fetch completes, each but the last having raised; the
\* list is cached exactly when a fetch has completed; a scan batches the
\* cached list, in order, and a finished scan all of it.
C10_Fetches ==
    /\ \A k \in DOMAIN fetches :
         fetches[k].run = k /\ (k < Len(fetches) => fetches[k].raised)
    /\ Cached <=> (fetches # <<>> /\ ~fetches[Len(fetches)].raised)
    /\ pc = "scan" =>
         /\ Cached
         /\ Scanned = SubSeq(session_state.all_symbols, 1,
                             IF i < Len(session_state.all_symbols)
                             THEN i ELSE Len(session_state.all_symbols))
    /\ (Cached /\ clicked /\ LoopDone) => Scanned = session_state.all_symbols

\* Step part: once cached, the list stays and nothing is fetched again.
C10_CacheKept ==
    Cached =>
        /\ "all_symbols" \in DOMAIN session_state'
        /\ session_state'.all_symbols = session_state.all_symbols
        /\ fetches' = fetches

\* C10 (amended): the symbol lists are fetched in every run until a fetch
\* completes without raising and in no run after it; from then on the cached
\* list never changes and every scan batches exactly that list, also when
\* the fetch returned no symbols.
C10_FetchedUntilCached == []C10_Fetches /\ [][C10_CacheKept]_vars

\* C10 witness: a later run finished its scan of an empty cached list, fetched
\* once, in the first run.
C10_Witness ==
    /\ Cached
    /\ session_state.all_symbols = <<>>
    /\ run >= 2
    /\ clicked
    /\ pc = "refresh"
    /\ Len(fetches) = 1

=============================================================================
